---- MODULE Spec2Model ----
(***************************************************************************)
(* The paginated query-retrieval engines of JupiterOneClient               *)
(* (jupiterone/client.py): _cursor_query (sequential and thread-pool       *)
(* mode), _limit_and_skip_query and query_with_deferred_response, with     *)
(* _execute_query and the retrying session below them and query_v1 above   *)
(* them, each run as one call against a server whose answers are fixed by  *)
(* the initial state.                                                      *)
(***************************************************************************)
EXTENDS Integers, Sequences, FiniteSets, TLC

VARIABLES
    engine,           \* what the call runs: "cursor", "skiplimit", "deferred",
                      \* "execute_query", "query_v1"
    query,            \* the query text, a sequence of one-character strings
    cursor,           \* the caller's starting cursor (Null is Python's None)
    max_workers,      \* _cursor_query's max_workers (0 is None)
    skip,             \* _limit_and_skip_query's skip argument
    limit,            \* _limit_and_skip_query's limit argument
    server,           \* the server's answers
    pc,               \* the calling thread's position
    result_limit,     \* _cursor_query's result_limit (0 is False)
    results,          \* the accumulated list (results / all_query_results)
    response,         \* the last page response (response / download_response)
    requests,         \* every page request sent so far, in order
    futures,          \* the executor's futures, by submission index
    future_to_cursor, \* the futures the calling thread still tracks
    done,             \* the set concurrent.futures.wait returned, not yet iterated
    page,             \* _limit_and_skip_query's page counter
    current_cursor,   \* query_with_deferred_response's current_cursor
    attempt,          \* the submission attempt of the deferred engine's for loop
    job,              \* server side: IN_PROGRESS answers left for the current download URL
    polls,            \* every GET of a download URL so far, with its answer's status
    ret,              \* what the call returned or raised
    include_deleted,  \* the engine's include_deleted argument
    url,              \* the scheme prefix of the client's graphql_url
    retries,          \* the retries the session's Retry object has left
    status_code,      \* the status of the response session.post returned (0: none)
    kwargs,           \* the keyword arguments the caller gave query_v1
    warnings,         \* the warnings emitted so far
    previous,         \* what the call before this one returned or raised
    slept,            \* the arguments of the submission loop's time.sleep calls
    account,          \* the client's _account
    token,            \* the client's _token
    headers           \* the client's headers dict

vars == <<engine, query, cursor, max_workers, skip, limit, server, pc,
          result_limit, results,
          response, requests, futures, future_to_cursor, done, page,
          current_cursor, attempt, job, polls, ret,
          include_deleted, url, retries, status_code, kwargs, warnings, previous,
          slept, account, token, headers>>

inputs == <<engine, query, cursor, max_workers, skip, limit, server,
            include_deleted>>

\* the session's state, and what lies outside one engine call
transport == <<url, retries, status_code>>
caller == <<kwargs, warnings, previous>>

\* the client object's attributes
client == <<account, token, headers>>

(***************************************************************************)
(* Bounds of the model.                                                    *)
(***************************************************************************)
MaxPages == 3        \* cursor pages a server holds
MaxPageSize == 2     \* records on one cursor page
MaxWorkers == 2      \* largest max_workers tried (0 stands for None)

(***************************************************************************)
(* Values.                                                                 *)
(***************************************************************************)
Absent == "<absent>"   \* the key is not in the dict
Null == "<null>"       \* Python None / JSON null
EmptyStr == ""
TokenNames == <<"c1", "c2", "c3", "c4", "c5", "c6", "c7", "c8">>
Token(i) == TokenNames[i]
PageOf(c) == CHOOSE i \in 1..Len(TokenNames) : TokenNames[i] = c

\* a test for None alone: the empty string counts as a cursor
Truthy_NotNoneOnly(c) == c \notin {Absent, Null}

\* Python truthiness of a cursor value: a missing key (.get gives None), None
\* and the empty string are falsy.
Truthy(c) == c \notin {Absent, Null, EmptyStr}

\* A list `data` has no keys; a tree `data` is a dict with vertices and edges.
ListData(items) == [keys |-> {}, items |-> items]
TreeData == [keys |-> {"vertices", "edges"}, items |-> <<>>]
NoData == ListData(<<>>)

\* a misspelt key never found
IsTree_WrongKey(data) == "vertexes" \in data.keys /\ "edges" \in data.keys

\* "vertices" in data and "edges" in data
IsTree(data) == "vertices" \in data.keys /\ "edges" \in data.keys

NoResponse == [kind |-> "none", data |-> NoData, cursor |-> Absent]
NoReturn == [kind |-> "none", value |-> NoData]

\* query_v1's **kwargs: the keys given, and the value of each (the value of a
\* key not given is never read)
NoKwargs ==
    [keys |-> {}, skip |-> 0, limit |-> 0, cursor |-> Null,
     include_deleted |-> FALSE, max_workers |-> 0]

\* lst[:n] for n >= 0
Take(lst, n) == SubSeq(lst, 1, IF n < Len(lst) THEN n ELSE Len(lst))

(***************************************************************************)
(* The inline limit: re.search(r"(?i)LIMIT\s+(?P<inline_limit>\d+)", query)*)
(***************************************************************************)
Digits == <<"0", "1", "2", "3", "4", "5", "6", "7", "8", "9">>
DigitChars == {Digits[i] : i \in 1..10}
SpaceChars == {" ", "\t", "\n"}
DigitVal(c) == (CHOOSE i \in 1..10 : Digits[i] = c) - 1

\* (?i): the pattern's letters match either case
UpperCase(c) ==
    CASE c = "l" -> "L"
      [] c = "i" -> "I"
      [] c = "m" -> "M"
      [] c = "t" -> "T"
      [] OTHER -> c

\* the end (exclusive) of the longest run of characters of S starting at i
RunEnd(q, i, S) ==
    CHOOSE j \in i..(Len(q) + 1) :
        /\ \A k \in i..(j - 1) : q[k] \in S
        /\ (j = Len(q) + 1 \/ q[j] \notin S)

KeywordAt(q, i) ==
    /\ i + 4 <= Len(q)
    /\ \A k \in 1..5 : UpperCase(q[i + k - 1]) = <<"L", "I", "M", "I", "T">>[k]

\* the pattern matches with its first character at position i
MatchAt(q, i) ==
    /\ KeywordAt(q, i)
    /\ RunEnd(q, i + 5, SpaceChars) > i + 5
    /\ RunEnd(q, RunEnd(q, i + 5, SpaceChars), DigitChars)
         > RunEnd(q, i + 5, SpaceChars)

\* re.search: the leftmost position where the pattern matches, 0 for None
limit_match(q) ==
    IF \E i \in 1..Len(q) : MatchAt(q, i)
    THEN CHOOSE i \in 1..Len(q) :
             MatchAt(q, i) /\ \A k \in 1..(i - 1) : ~MatchAt(q, k)
    ELSE 0

RECURSIVE DecimalValue(_)
\* int() of a sequence of digit characters
DecimalValue(ds) ==
    IF ds = <<>> THEN 0
    ELSE 10 * DecimalValue(SubSeq(ds, 1, Len(ds) - 1)) + DigitVal(ds[Len(ds)])

\* the text of the named group inline_limit of the match at position i
inline_limit(q, i) ==
    LET s == RunEnd(q, i + 5, SpaceChars)
        e == RunEnd(q, s, DigitChars)
    IN SubSeq(q, s, e - 1)

\* lines 192-195, the value given to result_limit: the integer of the match,
\* else False. Python's False is the integer 0 (False == 0, and both are
\* falsy), so 0 stands for it.
parse_result_limit(q) ==
    IF limit_match(q) # 0
    THEN DecimalValue(inline_limit(q, limit_match(q)))
    ELSE 0

(***************************************************************************)
(* Constants of the program.                                               *)
(***************************************************************************)
J1QL_SKIP_COUNT == 250
J1QL_LIMIT_COUNT == 250

(***************************************************************************)
(* The queries tried.                                                      *)
(***************************************************************************)
\* FIND x
QueryPlain == <<"F", "I", "N", "D", " ", "x">>
\* FIND x LIMIT 0
QueryLimit0 == QueryPlain \o <<" ", "L", "I", "M", "I", "T", " ", "0">>
\* FIND x limit 2
QueryLimit2 == QueryPlain \o <<" ", "l", "i", "m", "i", "t", " ", "2">>
\* FIND x LIMIT  3   (two blanks)
QueryLimit3 == QueryPlain \o <<" ", "L", "I", "M", "I", "T", " ", " ", "3">>
\* FIND x LIMIT 12
QueryLimit12 == QueryPlain \o <<" ", "L", "I", "M", "I", "T", " ", "1", "2">>
\* FIND LIMITs LIMIT 5 LIMIT 1   (the first match is LIMIT 5)
QueryLimit5 ==
    <<"F", "I", "N", "D", " ", "L", "I", "M", "I", "T", "s">>
        \o <<" ", "L", "i", "m", "i", "t", " ", "5">>
        \o <<" ", "L", "I", "M", "I", "T", " ", "1">>

Queries ==
    {QueryPlain, QueryLimit0, QueryLimit2, QueryLimit3, QueryLimit12, QueryLimit5}

(***************************************************************************)
(* The session built by __init__ and _execute_query.  A transport server   *)
(* answers its first `count` requests with status `before` and every later *)
(* one with status `status` and the JSON body `content`.                   *)
(***************************************************************************)
MaxTransient == 6    \* requests a transport server answers before its lasting answer
MaxErrors == 2       \* entries of the errors array of a 200 body

\* Retry(total=5, status_forcelist=[429, 502, 503, 504],
\*       allowed_methods=["POST", "GET"])
total == 5
status_forcelist == {429, 502, 503, 504}
allowed_methods == {"POST", "GET"}

\* session.mount("https://", HTTPAdapter(max_retries=retries)): the URLs with
\* this prefix go through the adapter holding the Retry object, the others
\* through the session's default adapter, which retries on no status
mounted(u) == u = "https://"

\* Retry.is_retry for a response: the method is allowed and the status forced
is_retry(method, status) ==
    method \in allowed_methods /\ status \in status_forcelist

\* Retry.is_exhausted for the count left after Retry.increment: `total` is the
\* number of retries allowed, so the count is exhausted once it is below 0
is_exhausted(left) == left < 0

\* an exception: its class, its message, and the status code or the error list
\* it was built from (0 and <<>> when it holds none)
Error(type, message, status, errors) ==
    [type |-> type, message |-> message, status |-> status, errors |-> errors]

\* requests.exceptions.RetryError, raised by HTTPAdapter.send for urllib3's
\* MaxRetryError (raise_on_status is left at its default)
RetryError == Error("requests.exceptions.RetryError", "", 0, <<>>)

\* the error replaced by a bare Exception on the way up
Raised_Generic(e) == [kind |-> "raise", value |-> Error("Exception", "", 0, <<>>)]

\* the call ends with the exception e
Raised(e) == [kind |-> "raise", value |-> e]

\* t in s, for two strings given as sequences of characters
Contains(s, t) ==
    \E i \in 1..(Len(s) - Len(t) + 1) : SubSeq(s, i, i + Len(t) - 1) = t

\* "429" in the message of any entry
rate_limited_Any(errors) ==
    \E i \in 1..Len(errors) : Contains(errors[i].message, <<"4", "2", "9">>)

\* len(errors) == 1 and "429" in errors[0]["message"]
rate_limited(errors) ==
    Len(errors) = 1 /\ Contains(errors[1].message, <<"4", "2", "9">>)

\* 504 handled in the branch of 429 and 503
status_error_NoGateway(status) ==
    CASE status = 401 ->
           Error("JupiterOneApiError",
                 "401: Unauthorized. Please supply a valid account id and API token.",
                 0, <<>>)
      [] status \in {429, 503, 504} ->
           Error("JupiterOneApiRetryError", "JupiterOne API rate limit exceeded.",
                 0, <<>>)
      [] status = 500 ->
           Error("JupiterOneApiError", "JupiterOne API internal server error.",
                 0, <<>>)
      [] OTHER -> Error("JupiterOneApiError", "{}:{}", status, <<>>)

\* lines 149-170: the exception raised for a response whose status is not 200;
\* the last branch formats "{}:{}" with the status code and the body
status_error(status) ==
    CASE status = 401 ->
           Error("JupiterOneApiError",
                 "401: Unauthorized. Please supply a valid account id and API token.",
                 0, <<>>)
      [] status \in {429, 503} ->
           Error("JupiterOneApiRetryError", "JupiterOne API rate limit exceeded.",
                 0, <<>>)
      [] status = 504 ->
           Error("JupiterOneApiRetryError", "Gateway Timeout.", 0, <<>>)
      [] status = 500 ->
           Error("JupiterOneApiError", "JupiterOne API internal server error.",
                 0, <<>>)
      [] OTHER -> Error("JupiterOneApiError", "{}:{}", status, <<>>)

\* lines 138-170: what _execute_query does with the response session.post
\* returned
execute_query_result(status, content) ==
    IF status = 200
    THEN IF "errors" \in content.keys
         THEN IF rate_limited(content.errors)
              THEN Raised(Error("JupiterOneApiRetryError",
                                "JupiterOne API rate limit exceeded", 0, <<>>))
              ELSE Raised(Error("JupiterOneApiError", "", 0, content.errors))
         ELSE [kind |-> "content", value |-> content]
    ELSE Raised(status_error(status))

StatusCodes == {200, 201, 401, 404, 429, 500, 502, 503, 504}

\* 429 / HTTP 429! / 42 9 / oops
ErrorMessages ==
    {<<"4", "2", "9">>,
     <<"H", "T", "T", "P", " ", "4", "2", "9", "!">>,
     <<"4", "2", " ", "9">>,
     <<"o", "o", "p", "s">>}

ErrorLists ==
    UNION {[1..n -> {[message |-> m] : m \in ErrorMessages}] : n \in 0..MaxErrors}

\* a body with data and no errors key
DataContent == [keys |-> {"data"}, errors |-> <<>>]

Contents ==
    {DataContent} \cup {[keys |-> {"errors"}, errors |-> e] : e \in ErrorLists}

TransportServers ==
    {[before |-> b, count |-> k, status |-> st, content |-> c] :
        b \in {429, 503}, k \in 0..MaxTransient, st \in StatusCodes,
        c \in Contents}

\* the status of the server's answer to the k-th request
TransportStatus(k) == IF k <= server.count THEN server.before ELSE server.status

\* lines 118-170: one attempt of session.post with what follows it: the next
\* attempt, the adapter's RetryError, or the handling of the response returned
ExecuteQuery ==
    /\ engine = "execute_query"
    /\ pc \in {"start", "retry"}
    /\ requests' = Append(requests, [query |-> query, cursor |-> Absent])
    /\ LET status == TransportStatus(Len(requests) + 1)
       IN IF mounted(url) /\ is_retry("POST", status)
          THEN /\ retries' = retries - 1
               /\ status_code' = status_code
               /\ IF is_exhausted(retries')
                  THEN /\ ret' = Raised(RetryError)
                       /\ pc' = "done"
                  ELSE /\ ret' = ret
                       /\ pc' = "retry"
          ELSE /\ status_code' = status
               /\ retries' = retries
               /\ ret' = execute_query_result(status, server.content)
               /\ pc' = "done"
    /\ UNCHANGED <<client, slept>>
    /\ UNCHANGED <<inputs, url, caller, result_limit, results, response, futures,
                   future_to_cursor, done, page, current_cursor, attempt, job,
                   polls>>

(***************************************************************************)
(* The server.  A cursor server holds a chain of pages: a request without  *)
(* a cursor is answered with page 1, a request with cursor Token(i) with   *)
(* page i; page i < N carries Token(i + 1) and the last page carries no    *)
(* usable cursor (key absent, null or empty).  failAt is the page whose    *)
(* request ends in an exception of _execute_query (0: none), malformedAt   *)
(* the page whose body lacks the data key under queryV1 (0: none).  A tree *)
(* server answers every request with a vertices/edges object.              *)
(***************************************************************************)
\* the status of the failing answer, by the page (or the request) that fails
FailStatuses == <<401, 503, 500, 504>>
FailStatus(i) == FailStatuses[((i - 1) % Len(FailStatuses)) + 1]

\* the response of a fetch that raised, with the exception _execute_query
\* raised for status
ErrorResponse(status) ==
    [kind |-> "error", data |-> NoData, cursor |-> Absent,
     error |-> status_error(status)]

\* the records of page i when it holds n of them: distinct over the chain
PageRecords(i, n) == [j \in 1..n |-> (i - 1) * (MaxPageSize + 1) + j]

Chain(sizes, last) ==
    [i \in 1..Len(sizes) |->
        [data |-> PageRecords(i, sizes[i]),
         cursor |-> IF i < Len(sizes) THEN Token(i + 1) ELSE last]]

SizeSeqs == UNION {[1..n -> 0..MaxPageSize] : n \in 1..MaxPages}
ZeroSeqs == {[i \in 1..n |-> 0] : n \in 1..MaxPages}

CursorServers ==
    {[tree |-> FALSE, pages |-> Chain(sizes, last), failAt |-> f, total |-> 0,
      malformedAt |-> 0] :
        sizes \in SizeSeqs, last \in {Absent, Null, EmptyStr}, f \in 0..MaxPages}
    \cup
    {[tree |-> TRUE, pages |-> Chain(sizes, last), failAt |-> f, total |-> 0,
      malformedAt |-> 0] :
        sizes \in ZeroSeqs, last \in {Absent, Null, EmptyStr}, f \in 0..1}

\* the KeyError of response["data"]["queryV1"]["data"] on a body without
\* that key
KeyError == Error("KeyError", "data", 0, <<>>)

\* the response of a fetch whose body lacks the data list
MalformedResponse ==
    [kind |-> "malformed", data |-> NoData, cursor |-> Absent, error |-> KeyError]

\* the fetch raised, or the indexing of what it returned does
raises(r) == r.kind \in {"error", "malformed"}

\* the cursor servers with pages that hold records: every chain with at most
\* one failing or malformed page, and a tree server
ShapeServers ==
    {[tree |-> FALSE, pages |-> Chain(sizes, last), failAt |-> fm[1], total |-> 0,
      malformedAt |-> fm[2]] :
        sizes \in UNION {[1..n -> 1..MaxPageSize] : n \in 1..MaxPages},
        last \in {Absent, Null},
        fm \in ((0..MaxPages) \X {0}) \cup ({0} \X (0..MaxPages))}
    \cup
    {[tree |-> TRUE, pages |-> Chain(<<0>>, Absent), failAt |-> 0, total |-> 0,
      malformedAt |-> 0]}

\* what the server's answer makes _execute_query give fetch_page for a request
\* carrying cursor c: an exception, or the response body
CursorAnswer(c) ==
    LET i == IF \E k \in 1..Len(TokenNames) : TokenNames[k] = c THEN PageOf(c) ELSE 1
    IN IF server.failAt = i
       THEN ErrorResponse(FailStatus(i))
       ELSE IF server.malformedAt = i
       THEN MalformedResponse
       ELSE [kind |-> "ok",
             data |-> IF server.tree THEN TreeData
                      ELSE ListData(server.pages[i].data),
             cursor |-> server.pages[i].cursor]

(***************************************************************************)
(* _cursor_query                                                           *)
(***************************************************************************)
\* includeDeleted left at False
fetch_page_request_NoFlag(c) ==
    [query |-> query, includeDeleted |-> FALSE,
     cursor |-> IF c = Null THEN Absent ELSE c]

\* the cursor never sent
fetch_page_request_NoCursor(c) ==
    [query |-> query, includeDeleted |-> include_deleted, cursor |-> Absent]

\* the variables fetch_page sends: the cursor only when it is not None
fetch_page_request(c) ==
    [query |-> query, includeDeleted |-> include_deleted,
     cursor |-> IF c = Null THEN Absent ELSE c]

\* the limit never counted as reached
limit_reached_Never(n, res) == FALSE

\* > for >=
limit_reached_Strict(n, res) == n # 0 /\ Len(res) > n

\* result_limit and len(results) >= result_limit, with n the result_limit
limit_reached(n, res) == n # 0 /\ Len(res) >= n

\* {"data": results[:result_limit] if result_limit else results}, with n the
\* result_limit (lines 217 and 270-275)
return_results(n, res) ==
    [kind |-> "wrapped", value |-> ListData(IF n # 0 THEN Take(res, n) ELSE res)]

\* the new page put in front of the list
extend_Prepend(res, data) == data.items \o res

\* results.extend(data), lines 213 and 263
extend(res, data) == res \o data.items

\* the new page put in front of the list
extend_page_Prepend(res, page_data) == page_data.items \o res

\* results.extend(page_data), line 239
extend_page(res, page_data) == res \o page_data.items

\* max_workers and max_workers > 1
parallel == max_workers # 0 /\ max_workers > 1

\* two fetches queued for the same cursor
submit_Twice(fs, c) ==
    Append(Append(fs, [cursor |-> c, state |-> "pending", result |-> NoResponse]),
           [cursor |-> c, state |-> "pending", result |-> NoResponse])

\* executor.submit(fetch_page, c)
submit(fs, c) == Append(fs, [cursor |-> c, state |-> "pending", result |-> NoResponse])

\* lines 197-225: the first page, its early returns, and in parallel mode the
\* submission of the second page's fetch
FirstPage ==
    /\ engine = "cursor"
    /\ pc = "start"
    /\ result_limit' = parse_result_limit(query)
    /\ requests' = Append(requests, fetch_page_request(cursor))
    /\ LET r == CursorAnswer(cursor)
       IN IF raises(r)
          THEN /\ ret' = Raised(r.error)
               /\ pc' = "done"
               /\ UNCHANGED <<response, results, futures, future_to_cursor>>
          ELSE /\ response' = r
               /\ IF IsTree(r.data)
                  THEN /\ ret' = [kind |-> "raw", value |-> r.data]
                       /\ pc' = "done"
                       /\ UNCHANGED <<results, futures, future_to_cursor>>
                  ELSE /\ results' = extend(results, r.data)
                       /\ IF ~Truthy(r.cursor)
                               \/ limit_reached(result_limit', results')
                          THEN /\ ret' = return_results(result_limit', results')
                               /\ pc' = "done"
                               /\ UNCHANGED <<futures, future_to_cursor>>
                          ELSE IF parallel
                          THEN /\ futures' = submit(futures, r.cursor)
                               /\ future_to_cursor' = {Len(futures')}
                               /\ pc' = "wait"
                               /\ ret' = ret
                          ELSE /\ pc' = "sequential"
                               /\ UNCHANGED <<ret, futures, future_to_cursor>>
    /\ UNCHANGED <<transport, caller, client, slept>>
    /\ UNCHANGED <<inputs, done, page, current_cursor, attempt, job, polls>>

\* lines 259-275: one iteration of the sequential loop, with the return that
\* follows its break
SequentialPage ==
    /\ engine = "cursor"
    /\ pc = "sequential"
    /\ requests' = Append(requests, fetch_page_request(response.cursor))
    /\ LET r == CursorAnswer(response.cursor)
       IN IF raises(r)
          THEN /\ ret' = Raised(r.error)
               /\ pc' = "done"
               /\ UNCHANGED <<response, results>>
          ELSE /\ response' = r
               /\ results' = extend(results, r.data)
               /\ IF limit_reached(result_limit, results') \/ ~Truthy(r.cursor)
                  THEN /\ ret' = return_results(result_limit, results')
                       /\ pc' = "done"
                  ELSE /\ pc' = "sequential"
                       /\ ret' = ret
    /\ UNCHANGED <<transport, caller, client, slept>>
    /\ UNCHANGED <<inputs, result_limit, futures, future_to_cursor, done, page,
                   current_cursor, attempt, job, polls>>

Running == {f \in 1..Len(futures) : futures[f].state = "running"}

\* a pool thread takes a queued fetch_page and sends its request
WorkerStart(f) ==
    /\ engine = "cursor"
    /\ futures[f].state = "pending"
    /\ Cardinality(Running) < max_workers
    /\ futures' = [futures EXCEPT ![f].state = "running"]
    /\ requests' = Append(requests, fetch_page_request(futures[f].cursor))
    /\ UNCHANGED <<transport, caller, client, slept>>
    /\ UNCHANGED <<inputs, result_limit, pc, results, response, future_to_cursor, done, page,
                   current_cursor, attempt, job, polls, ret>>

\* the fetch returns or raises: the future completes
WorkerFinish(f) ==
    /\ engine = "cursor"
    /\ futures[f].state = "running"
    /\ futures' = [futures EXCEPT ![f].state = "finished",
                                  ![f].result = CursorAnswer(futures[f].cursor)]
    /\ UNCHANGED <<transport, caller, client, slept>>
    /\ UNCHANGED <<inputs, result_limit, pc, results, response, requests, future_to_cursor,
                   done, page, current_cursor, attempt, job, polls, ret>>

\* no future ever counts as done
Completed_Never(f) == FALSE

\* wait returns every tracked future, completed or not
Completed_Always(f) == TRUE

\* a future concurrent.futures.wait counts as done
Completed(f) == futures[f].state \in {"finished", "cancelled"}

\* lines 227-232: the while test and concurrent.futures.wait(FIRST_COMPLETED)
WaitFirstCompleted ==
    /\ engine = "cursor"
    /\ pc = "wait"
    /\ IF future_to_cursor = {}
       THEN /\ pc' = "shutdown"
            /\ done' = done
       ELSE /\ \E f \in future_to_cursor : Completed(f)
            /\ done' = {f \in future_to_cursor : Completed(f)}
            /\ pc' = "for"
    /\ UNCHANGED <<transport, caller, client, slept>>
    /\ UNCHANGED <<inputs, result_limit, results, response, requests, futures,
                   future_to_cursor, page, current_cursor, attempt, job, polls,
                   ret>>

\* f.cancel() for every tracked future: a queued future is cancelled, a
\* running or finished one is not
cancel_all(fs, tracked) ==
    [f \in 1..Len(fs) |->
        IF f \in tracked /\ fs[f].state = "pending"
        THEN [fs[f] EXCEPT !.state = "cancelled"]
        ELSE fs[f]]

\* the future left in the dict
pop_Keep(tracked, f) == tracked

\* future_to_cursor.pop(future)
pop(tracked, f) == tracked \ {f}

\* lines 234-256: the body of `for future in done` for one future
ProcessFuture(f) ==
    /\ engine = "cursor"
    /\ pc = "for"
    /\ f \in done
    /\ IF futures[f].state = "cancelled" \/ raises(futures[f].result)
       THEN \* future.result() raises: printed, and the loop goes on
            /\ future_to_cursor' = pop(future_to_cursor, f)
            /\ done' = done \ {f}
            /\ pc' = IF done' = {} THEN "wait" ELSE "for"
            /\ UNCHANGED <<response, results, futures>>
       ELSE /\ response' = futures[f].result
            /\ results' = extend_page(results, futures[f].result.data)
            /\ IF limit_reached(result_limit, results')
                  \/ ~Truthy(futures[f].result.cursor)
               THEN /\ futures' = cancel_all(futures, pop(future_to_cursor, f))
                    /\ future_to_cursor' = {}
                    /\ done' = {}
                    /\ pc' = "wait"
               ELSE /\ futures' = submit(futures, futures[f].result.cursor)
                    /\ future_to_cursor' =
                           pop(future_to_cursor, f) \cup {Len(futures')}
                    /\ done' = done \ {f}
                    /\ pc' = IF done' = {} THEN "wait" ELSE "for"
    /\ UNCHANGED <<transport, caller, client, slept>>
    /\ UNCHANGED <<inputs, result_limit, requests, page, current_cursor, attempt, job, polls,
                   ret>>

\* the end of the with block (the executor's shutdown waits for its threads)
\* and lines 270-275
ExecutorExit ==
    /\ engine = "cursor"
    /\ pc = "shutdown"
    /\ \A f \in 1..Len(futures) : futures[f].state \notin {"pending", "running"}
    /\ ret' = return_results(result_limit, results)
    /\ pc' = "done"
    /\ UNCHANGED <<transport, caller, client, slept>>
    /\ UNCHANGED <<inputs, result_limit, results, response, requests, futures,
                   future_to_cursor, done, page, current_cursor, attempt, job,
                   polls>>

(***************************************************************************)
(* _limit_and_skip_query                                                   *)
(***************************************************************************)
MaxFullPages == 3    \* full pages of J1QL_SKIP_COUNT records a result set holds
MaxRequests == 5     \* page requests of one skip/limit call the model follows

\* the sizes of the result sets a skip/limit server holds
Totals == {n * J1QL_SKIP_COUNT + r : n \in 0..MaxFullPages, r \in {0, 100}}

SkipLimitServers ==
    {[tree |-> t, pages |-> <<>>, failAt |-> f, total |-> n] :
        t \in BOOLEAN, f \in 0..2, n \in Totals}

RECURSIVE ToDecimal(_)
\* str() of a natural number
ToDecimal(n) ==
    IF n < 10 THEN <<Digits[n + 1]>>
    ELSE ToDecimal(n \div 10) \o <<Digits[(n % 10) + 1]>>

\* the two numbers in each other's place
skip_limit_text_Swapped(q, offset, lim) ==
    q \o <<" ", "S", "K", "I", "P", " ">> \o ToDecimal(lim)
      \o <<" ", "L", "I", "M", "I", "T", " ">> \o ToDecimal(offset)

\* f"{query} SKIP {page * skip} LIMIT {limit}"
skip_limit_text(q, offset, lim) ==
    q \o <<" ", "S", "K", "I", "P", " ">> \o ToDecimal(offset)
      \o <<" ", "L", "I", "M", "I", "T", " ">> \o ToDecimal(lim)

\* the server's answer to the k-th request, which asks for `lim` records after
\* the first `offset` of its result set (records 1..total)
SkipLimitAnswer(k, offset, lim) ==
    LET last == IF offset + lim < server.total THEN offset + lim ELSE server.total
        n == IF last > offset THEN last - offset ELSE 0
    IN IF server.failAt = k
       THEN ErrorResponse(FailStatus(k))
       ELSE [kind |-> "ok",
             data |-> IF server.tree THEN TreeData
                      ELSE ListData([j \in 1..n |-> offset + j]),
             cursor |-> Absent]

\* the page length compared with the caller's limit
short_page_Limit(data) == Len(data.items) < limit

\* the loop stopped at the first empty page
short_page_Empty(data) == Len(data.items) = 0

\* len(data) < J1QL_SKIP_COUNT
short_page(data) == Len(data.items) < J1QL_SKIP_COUNT

\* lines 287-307: one iteration of the loop, with the return that follows its
\* break
SkipLimitPage ==
    /\ engine = "skiplimit"
    /\ pc \in {"start", "skiploop"}
    /\ Len(requests) < MaxRequests
    /\ requests' = Append(requests,
           [query |-> skip_limit_text(query, page * skip, limit),
            includeDeleted |-> include_deleted, cursor |-> Absent])
    /\ LET r == SkipLimitAnswer(Len(requests) + 1, page * skip, limit)
       IN IF r.kind = "error"
          THEN /\ ret' = Raised(r.error)
               /\ pc' = "done"
               /\ UNCHANGED <<response, results, page>>
          ELSE /\ response' = r
               /\ IF IsTree(r.data)
                  THEN /\ ret' = [kind |-> "raw", value |-> r.data]
                       /\ pc' = "done"
                       /\ UNCHANGED <<results, page>>
                  ELSE /\ results' = results \o r.data.items
                       /\ IF short_page(r.data)
                          THEN /\ ret' = [kind |-> "wrapped", value |-> ListData(results')]
                               /\ pc' = "done"
                               /\ page' = page
                          ELSE /\ page' = page + 1
                               /\ pc' = "skiploop"
                               /\ ret' = ret
    /\ UNCHANGED <<transport, caller, client, slept>>
    /\ UNCHANGED <<inputs, result_limit, futures, future_to_cursor, done, current_cursor,
                   attempt, job, polls>>

(***************************************************************************)
(* query_with_deferred_response                                            *)
(***************************************************************************)
MaxDeferredPages == 2  \* pages a deferred server holds
MaxInProgress == 2     \* IN_PROGRESS answers of one download URL
MaxThrottle == 6       \* submissions answered 429 before the server relents
MaxPosts == 8          \* submissions of one call the model follows

max_retries == 5
backoff_factor == 2

\* A deferred server holds a chain of pages like a cursor server; the download
\* URL of page i answers IN_PROGRESS pages[i].wait times before its terminal
\* answer.  Its first `throttle` submissions (every one when always429) are
\* answered 429, the later ones with `status`.
DeferredChain(sizes, waits, last) ==
    [i \in 1..Len(sizes) |->
        [data |-> PageRecords(i, sizes[i]),
         cursor |-> IF i < Len(sizes) THEN Token(i + 1) ELSE last,
         wait |-> waits[i]]]

\* the headers of a 429 answer: `keys` holds "Retry-After" when the header is
\* there, retry_after is its text
NoHeaders == [keys |-> {}, retry_after |-> <<>>]

DeferredServers ==
    {[tree |-> FALSE, pages |-> DeferredChain(sw[1], sw[2], last), failAt |-> 0,
      total |-> 0, throttle |-> th[1], always429 |-> th[2], status |-> st,
      headers |-> NoHeaders] :
        sw \in UNION {[1..n -> {1, 2}] \X [1..n -> 0..MaxInProgress] :
                         n \in 1..MaxDeferredPages},
        last \in {Absent, Null, EmptyStr},
        th \in ((0..MaxThrottle) \X {FALSE}) \cup {<<0, TRUE>>},
        st \in {200, 401, 500}}

\* the servers of the submission loop: one page, ready at once, behind 0..
\* MaxThrottle answers 429 (or nothing but 429), with or without the header
RetryAfterTexts == {<<"0">>, <<"7">>, <<"1", "2">>}

BackoffServers ==
    {[tree |-> FALSE, pages |-> DeferredChain(<<1>>, <<0>>, Absent), failAt |-> 0,
      total |-> 0, throttle |-> th[1], always429 |-> th[2], status |-> st,
      headers |-> hs] :
        th \in ((0..MaxThrottle) \X {FALSE}) \cup {<<0, TRUE>>},
        st \in {200, 401, 500},
        hs \in {NoHeaders} \cup
                  {[keys |-> {"Retry-After"}, retry_after |-> t] :
                       t \in RetryAfterTexts}}

\* the status code of the answer to the k-th submission
PostStatus(k) ==
    IF server.always429 \/ k <= server.throttle THEN 429 ELSE server.status

\* the page a submission carrying cursor c starts a download for
DeferredPage(c) ==
    IF \E k \in 1..Len(TokenNames) : TokenNames[k] = c THEN PageOf(c) ELSE 1

NoJob == [url |-> 0, page |-> 0, left |-> 0]

\* the header ignored
retry_after_NoHeader(hs, n) == backoff_factor ^ n

\* int(url_response.headers.get("Retry-After", backoff_factor ** attempt))
retry_after(hs, n) ==
    IF "Retry-After" \in hs.keys THEN DecimalValue(hs.retry_after)
    ELSE backoff_factor ^ n

\* requests.Response.ok: the status is below 400
ok(status) == status < 400

\* lines 323-359 and 380-381: one session.post of the submission loop with what
\* follows it: the sleep after a 429, the end of the for loop, the test of
\* url_response.ok, and either the download URL or the message and the next
\* round of the while loop
SubmitDeferred ==
    /\ engine = "deferred"
    /\ pc \in {"start", "submit"}
    /\ Len(requests) < MaxPosts
    /\ requests' = Append(requests, [query |-> query, cursor |-> current_cursor])
    /\ LET status == PostStatus(Len(requests) + 1)
       IN /\ slept' = IF status = 429
                      THEN Append(slept, retry_after(server.headers, attempt))
                      ELSE slept
          /\ IF status = 429 /\ attempt < max_retries
             THEN /\ attempt' = attempt + 1
                  /\ pc' = "submit"
                  /\ job' = job
             ELSE IF ok(status)
             THEN /\ job' = [url |-> job.url + 1,
                             page |-> DeferredPage(current_cursor),
                             left |-> server.pages[DeferredPage(current_cursor)].wait]
                  /\ pc' = "poll"
                  /\ attempt' = attempt
             ELSE /\ attempt' = 1
                  /\ pc' = "submit"
                  /\ job' = job
    /\ UNCHANGED <<transport, caller, client>>
    /\ UNCHANGED <<inputs, result_limit, results, response, futures, future_to_cursor, done,
                   page, current_cursor, polls, ret>>

\* the loop left after its first GET, whatever the status
terminal_Always(status) == TRUE

\* the test inverted: the loop left on IN_PROGRESS
terminal_Inverted(status) == status = "IN_PROGRESS"

\* status != 'IN_PROGRESS'
terminal(status) == status # "IN_PROGRESS"

\* the key never found: the call ends after its first page
has_cursor_Never(r) == FALSE

\* 'cursor' in download_response
has_cursor(r) == r.cursor # Absent

\* the list cut to the inline limit, as the cursor engine does
return_all_Limited(res) ==
    [kind |-> "list",
     value |-> ListData(IF parse_result_limit(query) # 0
                        THEN Take(res, parse_result_limit(query)) ELSE res)]

\* return all_query_results
return_all(res) == [kind |-> "list", value |-> ListData(res)]

\* lines 362-378: one session.get of the download URL with what follows it: the
\* sleep, or the end of the polling loop, the extension of the list and the
\* test for a further page
PollDeferred ==
    /\ engine = "deferred"
    /\ pc = "poll"
    /\ LET status == IF job.left > 0 THEN "IN_PROGRESS" ELSE "COMPLETED"
           r == [kind |-> "ok",
                 data |-> ListData(server.pages[job.page].data),
                 cursor |-> server.pages[job.page].cursor]
       IN /\ polls' = Append(polls,
                 [url |-> job.url, page |-> job.page, status |-> status])
          /\ IF ~terminal(status)
             THEN /\ job' = [job EXCEPT !.left = job.left - 1]
                  /\ pc' = "poll"
                  /\ UNCHANGED <<response, results, current_cursor, attempt, ret>>
             ELSE /\ response' = r
                  /\ results' = results \o r.data.items
                  /\ job' = job
                  /\ IF has_cursor(r)
                     THEN /\ current_cursor' = r.cursor
                          /\ attempt' = 1
                          /\ pc' = "submit"
                          /\ ret' = ret
                     ELSE /\ ret' = return_all(results')
                          /\ pc' = "done"
                          /\ UNCHANGED <<current_cursor, attempt>>
    /\ UNCHANGED <<transport, caller, client, slept>>
    /\ UNCHANGED <<inputs, result_limit, requests, futures, future_to_cursor, done, page>>

(***************************************************************************)
(* query_v1                                                                *)
(***************************************************************************)
\* both keys asked for
uses_limit_and_skip_Both(kw) == "skip" \in kw.keys /\ "limit" \in kw.keys

\* "skip" in kwargs.keys() or "limit" in kwargs.keys()
uses_limit_and_skip(kw) == "skip" \in kw.keys \/ "limit" \in kw.keys

\* kwargs.pop(key, default)
pop_default(kw, key, default) == IF key \in kw.keys THEN kw[key] ELSE default

\* the keyword arguments tried: any subset of the five keys, a key not given
\* holding the value NoKwargs has for it
Kwargs ==
    {kw \in [keys : SUBSET {"skip", "limit", "cursor", "include_deleted",
                            "max_workers"},
             skip : {0, 100}, limit : {0, 100, J1QL_LIMIT_COUNT},
             cursor : {Null, Token(2)}, include_deleted : BOOLEAN,
             max_workers : 0..MaxWorkers] :
        \A key \in DOMAIN NoKwargs \ ({"keys"} \cup kw.keys) : kw[key] = NoKwargs[key]}

\* a server that answers the requests of both engines: cursor requests from
\* its chain of pages, skip/limit requests from a result set of `total` records
QueryV1Servers ==
    {[tree |-> FALSE, pages |-> Chain(sizes, Absent), failAt |-> 0, total |-> n,
      malformedAt |-> 0] :
        sizes \in {<<1>>, <<2, 1>>}, n \in {100, J1QL_SKIP_COUNT + 100}}

\* lines 441-461: query_v1 up to the call of the engine it chose; the engine
\* then runs with the arguments given here, max_workers keeping the default
\* (None) of _cursor_query's signature
QueryV1 ==
    /\ engine = "query_v1"
    /\ pc = "call"
    /\ skip' = pop_default(kwargs, "skip", J1QL_SKIP_COUNT)
    /\ limit' = pop_default(kwargs, "limit", J1QL_LIMIT_COUNT)
    /\ include_deleted' = pop_default(kwargs, "include_deleted", FALSE)
    /\ cursor' = pop_default(kwargs, "cursor", Null)
    /\ IF uses_limit_and_skip(kwargs)
       THEN /\ warnings' = Append(warnings, "DeprecationWarning")
            /\ engine' = "skiplimit"
       ELSE /\ warnings' = warnings
            /\ engine' = "cursor"
    /\ max_workers' = 0
    /\ pc' = "start"
    /\ UNCHANGED <<client, slept>>
    /\ UNCHANGED <<query, server, kwargs, previous, transport, result_limit,
                   results, response, requests, futures, future_to_cursor, done,
                   page, current_cursor, attempt, job, polls, ret>>

\* the caller makes the same call of _cursor_query once more, against the same
\* server
CallAgain ==
    /\ engine = "cursor"
    /\ pc = "done"
    /\ previous = NoReturn
    /\ previous' = ret
    /\ pc' = "start"
    /\ result_limit' = 0
    /\ results' = <<>>
    /\ response' = NoResponse
    /\ requests' = <<>>
    /\ futures' = <<>>
    /\ future_to_cursor' = {}
    /\ done' = {}
    /\ ret' = NoReturn
    /\ UNCHANGED <<client, slept>>
    /\ UNCHANGED <<inputs, transport, kwargs, warnings, page, current_cursor,
                   attempt, job, polls>>

(***************************************************************************)
(* list_questions                                                          *)
(***************************************************************************)
MaxQuestionPages == 3  \* pages the questions library holds

\* constants.QUESTIONS, the GraphQL document of every request
QUESTIONS == "QUESTIONS"

\* a subscript with a key the dict does not hold
MissingKey(key) == Error("KeyError", key, 0, <<>>)

\* a response body: `keys` holds "data" when data.questions.questions is there,
\* "pageInfo" when data.questions.pageInfo is there, "errors" when the body has
\* an errors array
QuestionsBody(i, n, more, shape) ==
    [keys |-> CASE shape = "page" -> {"data", "pageInfo"}
                [] shape = "no_pageInfo" -> {"data"}
                [] OTHER -> {"errors"},
     questions |-> IF shape = "errors" THEN <<>> ELSE PageRecords(i, n),
     hasNextPage |-> more,
     endCursor |-> IF more THEN Token(i + 1) ELSE Null]

\* the library: the pages before page `stop` announce a next page and page
\* `stop` does not; page `stop` is a well-formed page, a page without
\* pageInfo, or an error body
QuestionsServers ==
    {[pages |-> [i \in 1..Len(sizes) |->
                    QuestionsBody(i, sizes[i], i < Len(sizes) /\ i # stop,
                                  IF i = stop THEN shape ELSE "page")]] :
        sizes \in UNION {[1..n -> 0..MaxPageSize] : n \in 1..MaxQuestionPages},
        stop \in 1..MaxQuestionPages,
        shape \in {"page", "no_pageInfo", "errors"}}

\* the body answering a request: the first page without a cursor, else the
\* page the cursor stands for
QuestionsAnswer(c) == server.pages[IF c = Absent THEN 1 ELSE PageOf(c)]

\* lines 1239 and 1251-1255: the JSON body of a request
questions_request(c) ==
    [query |-> QUESTIONS,
     keys |-> IF c = Absent THEN {"query", "flags"}
              ELSE {"query", "variables", "flags"},
     cursor |-> c]

\* every key found
has_key_Always(r, key) == TRUE

\* r[key] succeeds
has_key(r, key) == key \in r.keys

\* the loop never entered
has_next_page_Never(r) == FALSE

\* r["data"]["questions"]["pageInfo"]["hasNextPage"] == True
has_next_page(r) == r.hasNextPage = TRUE

\* lines 1241-1244 and 1257-1260: one POST and the extend of its questions
PostQuestions(c) ==
    /\ requests' = Append(requests, questions_request(c))
    /\ LET r == QuestionsAnswer(c)
       IN /\ response' = r
          /\ IF has_key(r, "data")
             THEN /\ results' = results \o r.questions
                  /\ pc' = "while"
                  /\ ret' = ret
             ELSE /\ ret' = Raised(MissingKey("data"))
                  /\ pc' = "done"
                  /\ results' = results

\* lines 1237-1244: the first request
ListQuestionsFirst ==
    /\ engine = "list_questions"
    /\ pc = "start"
    /\ PostQuestions(Absent)
    /\ UNCHANGED <<transport, caller, client, slept>>
    /\ UNCHANGED <<inputs, result_limit, futures, future_to_cursor, done, page,
                   current_cursor, attempt, job, polls>>

\* lines 1246-1262: the loop's test, then either one iteration or the return
ListQuestionsLoop ==
    /\ engine = "list_questions"
    /\ pc = "while"
    /\ IF ~has_key(response, "pageInfo")
       THEN /\ ret' = Raised(MissingKey("pageInfo"))
            /\ pc' = "done"
            /\ UNCHANGED <<requests, response, results>>
       ELSE IF has_next_page(response)
            THEN PostQuestions(response.endCursor)
            ELSE /\ ret' = [kind |-> "list", value |-> ListData(results)]
                 /\ pc' = "done"
                 /\ UNCHANGED <<requests, response, results>>
    /\ UNCHANGED <<transport, caller, client, slept>>
    /\ UNCHANGED <<inputs, result_limit, futures, future_to_cursor, done, page,
                   current_cursor, attempt, job, polls>>

(***************************************************************************)
(* The client object: __init__ and the account and token setters           *)
(***************************************************************************)
MaxSends == 3  \* requests the model follows on one client object

\* "Bearer {}".format(token), kept as prefix and argument
bearer(t) == <<"Bearer ", t>>

\* lines 76-80: the headers dict built by __init__
make_headers(a, t) ==
    [Authorization |-> bearer(t), JupiterOneAccount |-> a,
     ContentType |-> "application/json"]

\* the headers rebuilt from the attributes at every request
request_headers_Live(h, a, t) == make_headers(a, t)

\* headers=self.headers: the dict stored at construction
request_headers(h, a, t) == h

\* raise JupiterOneClientError(message)
JupiterOneClientError(message) == Error("JupiterOneClientError", message, 0, <<>>)

\* the values a caller assigns: strings, the empty string and None
AttrValues == {"id-1", "id-2", "id-3", EmptyStr, Null}

\* lines 98-103: client.account = value
SetAccount(value) ==
    /\ engine = "client"
    /\ IF ~Truthy(value)
       THEN /\ ret' = Raised(JupiterOneClientError("account is required"))
            /\ account' = account
       ELSE /\ account' = value
            /\ ret' = NoReturn
    /\ UNCHANGED <<token, headers, requests>>
    /\ UNCHANGED <<transport, caller, slept>>
    /\ UNCHANGED <<inputs, pc, result_limit, results, response, futures,
                   future_to_cursor, done, page, current_cursor, attempt, job,
                   polls>>

\* lines 110-115: client.token = value
SetToken(value) ==
    /\ engine = "client"
    /\ IF ~Truthy(value)
       THEN /\ ret' = Raised(JupiterOneClientError("token is required"))
            /\ token' = token
       ELSE /\ token' = value
            /\ ret' = NoReturn
    /\ UNCHANGED <<account, headers, requests>>
    /\ UNCHANGED <<transport, caller, slept>>
    /\ UNCHANGED <<inputs, pc, result_limit, results, response, futures,
                   future_to_cursor, done, page, current_cursor, attempt, job,
                   polls>>

\* lines 128-132: a request sent with headers=self.headers, and its response
SendRequest ==
    /\ engine = "client"
    /\ Len(requests) < MaxSends
    /\ requests' = Append(requests,
           [query |-> query, headers |-> request_headers(headers, account, token)])
    /\ ret' = [kind |-> "response", value |-> NoData]
    /\ UNCHANGED <<client>>
    /\ UNCHANGED <<transport, caller, slept>>
    /\ UNCHANGED <<inputs, pc, result_limit, results, response, futures,
                   future_to_cursor, done, page, current_cursor, attempt, job,
                   polls>>

(***************************************************************************)
(* Initial states and specifications.                                      *)
(***************************************************************************)
InitLocals ==
    /\ result_limit = 0
    /\ results = <<>>
    /\ response = NoResponse
    /\ requests = <<>>
    /\ futures = <<>>
    /\ future_to_cursor = {}
    /\ done = {}
    /\ page = 0
    /\ attempt = 1
    /\ job = NoJob
    /\ polls = <<>>
    /\ ret = NoReturn
    /\ retries = total
    /\ status_code = 0
    /\ warnings = <<>>
    /\ previous = NoReturn
    /\ slept = <<>>

\* the client every engine call runs on
InitClient ==
    /\ account = "id-1"
    /\ token = "id-1"
    /\ headers = make_headers(account, token)

InitCall == pc = "start" /\ InitLocals /\ InitClient

InitCursor ==
    /\ engine = "cursor"
    /\ query \in Queries
    /\ server \in CursorServers
    /\ server.failAt <= Len(server.pages)
    /\ cursor \in IF Len(server.pages) >= 2 THEN {Null, Token(2)} ELSE {Null}
    /\ max_workers \in 0..MaxWorkers
    /\ skip = J1QL_SKIP_COUNT
    /\ limit = J1QL_LIMIT_COUNT
    /\ current_cursor = Null
    /\ include_deleted = FALSE
    /\ url = "https://"
    /\ kwargs = NoKwargs
    /\ InitCall

InitSkipLimit ==
    /\ engine = "skiplimit"
    /\ query \in Queries
    /\ server \in SkipLimitServers
    /\ cursor = Null
    /\ max_workers = 0
    /\ skip \in {0, 100, J1QL_SKIP_COUNT}
    /\ limit \in {100, J1QL_LIMIT_COUNT}
    /\ current_cursor = Null
    /\ include_deleted = FALSE
    /\ url = "https://"
    /\ kwargs = NoKwargs
    /\ InitCall

Init == InitCursor \/ InitSkipLimit

NextSkipLimit == SkipLimitPage

SpecSkipLimit == InitSkipLimit /\ [][NextSkipLimit]_vars

Next ==
    \/ FirstPage
    \/ SequentialPage
    \/ \E f \in 1..Len(futures) : WorkerStart(f)
    \/ \E f \in 1..Len(futures) : WorkerFinish(f)
    \/ WaitFirstCompleted
    \/ \E f \in done : ProcessFuture(f)
    \/ ExecutorExit
    \/ SkipLimitPage

Spec == Init /\ [][Next]_vars

InitDeferred ==
    /\ engine = "deferred"
    /\ query \in {QueryPlain, QueryLimit2}
    /\ server \in DeferredServers
    /\ cursor \in IF Len(server.pages) >= 2 THEN {Null, Token(2)} ELSE {Null}
    /\ max_workers = 0
    /\ skip = J1QL_SKIP_COUNT
    /\ limit = J1QL_LIMIT_COUNT
    /\ current_cursor = cursor
    /\ include_deleted = FALSE
    /\ url = "https://"
    /\ kwargs = NoKwargs
    /\ InitCall

NextDeferred ==
    \/ SubmitDeferred
    \/ PollDeferred

SpecDeferred == InitDeferred /\ [][NextDeferred]_vars

InitTransport ==
    /\ engine = "execute_query"
    /\ query = QueryPlain
    /\ server \in TransportServers
    /\ server.status # 200 => server.content = DataContent
    /\ url \in {"https://", "http://"}
    /\ cursor = Null
    /\ max_workers = 0
    /\ skip = J1QL_SKIP_COUNT
    /\ limit = J1QL_LIMIT_COUNT
    /\ current_cursor = Null
    /\ include_deleted = FALSE
    /\ kwargs = NoKwargs
    /\ InitCall

NextTransport == ExecuteQuery

SpecTransport == InitTransport /\ [][NextTransport]_vars

InitQueryV1 ==
    /\ engine = "query_v1"
    /\ pc = "call"
    /\ query \in {QueryPlain, QueryLimit2}
    /\ server \in QueryV1Servers
    /\ kwargs \in Kwargs
    /\ ("cursor" \in kwargs.keys /\ kwargs.cursor # Null) => Len(server.pages) >= 2
    /\ "max_workers" \in kwargs.keys => kwargs.max_workers >= 1
    /\ "limit" \in kwargs.keys => kwargs.limit >= 1
    /\ cursor = Null
    /\ max_workers = 0
    /\ skip = 0
    /\ limit = 0
    /\ current_cursor = Null
    /\ include_deleted = FALSE
    /\ url = "https://"
    /\ InitLocals
    /\ InitClient

NextQueryV1 ==
    \/ QueryV1
    \/ FirstPage
    \/ SequentialPage
    \/ SkipLimitPage

SpecQueryV1 == InitQueryV1 /\ [][NextQueryV1]_vars

InitShape ==
    /\ engine = "cursor"
    /\ query \in {QueryPlain, QueryLimit2}
    /\ server \in ShapeServers
    /\ server.failAt <= Len(server.pages)
    /\ server.malformedAt <= Len(server.pages)
    /\ cursor \in IF Len(server.pages) >= 2 THEN {Null, Token(2)} ELSE {Null}
    /\ max_workers \in 0..MaxWorkers
    /\ skip = J1QL_SKIP_COUNT
    /\ limit = J1QL_LIMIT_COUNT
    /\ current_cursor = Null
    /\ include_deleted \in BOOLEAN
    /\ url = "https://"
    /\ kwargs = NoKwargs
    /\ InitCall

NextCursor ==
    \/ FirstPage
    \/ SequentialPage
    \/ \E f \in 1..Len(futures) : WorkerStart(f)
    \/ \E f \in 1..Len(futures) : WorkerFinish(f)
    \/ WaitFirstCompleted
    \/ \E f \in done : ProcessFuture(f)
    \/ ExecutorExit

SpecCursor == InitShape /\ [][NextCursor]_vars

\* the same calls against the servers whose pages hold one record each, from
\* the first page on
InitFair ==
    /\ InitShape
    /\ \A i \in 1..Len(server.pages) : Len(server.pages[i].data) <= 1
    /\ cursor = Null
    /\ ~include_deleted

\* the calls in parallel mode, LIMIT 0 among the queries
InitParallel ==
    /\ engine = "cursor"
    /\ query \in {QueryPlain, QueryLimit0, QueryLimit2}
    /\ server \in ShapeServers
    /\ server.failAt <= Len(server.pages)
    /\ server.malformedAt <= Len(server.pages)
    /\ cursor \in IF Len(server.pages) >= 2 THEN {Null, Token(2)} ELSE {Null}
    /\ max_workers \in 2..MaxWorkers
    /\ skip = J1QL_SKIP_COUNT
    /\ limit = J1QL_LIMIT_COUNT
    /\ current_cursor = Null
    /\ include_deleted = FALSE
    /\ url = "https://"
    /\ kwargs = NoKwargs
    /\ InitCall

NextParallel ==
    \/ FirstPage
    \/ \E f \in 1..Len(futures) : WorkerStart(f)
    \/ \E f \in 1..Len(futures) : WorkerFinish(f)
    \/ WaitFirstCompleted
    \/ \E f \in done : ProcessFuture(f)
    \/ ExecutorExit

SpecParallel == InitParallel /\ [][NextParallel]_vars

\* the calling thread and the pool threads keep running
SpecCursorFair == InitFair /\ [][NextCursor]_vars /\ WF_vars(NextCursor)

InitTwice ==
    /\ query \in {QueryPlain, QueryLimit3}
    /\ InitCursor

NextTwice ==
    \/ FirstPage
    \/ SequentialPage
    \/ \E f \in 1..Len(futures) : WorkerStart(f)
    \/ \E f \in 1..Len(futures) : WorkerFinish(f)
    \/ WaitFirstCompleted
    \/ \E f \in done : ProcessFuture(f)
    \/ ExecutorExit
    \/ CallAgain

SpecTwice == InitTwice /\ [][NextTwice]_vars

\* a deferred call over a URL the retry adapter is not mounted on, against a
\* server whose 429 answers may carry a Retry-After header
InitBackoff ==
    /\ engine = "deferred"
    /\ query = QueryPlain
    /\ server \in BackoffServers
    /\ cursor = Null
    /\ max_workers = 0
    /\ skip = J1QL_SKIP_COUNT
    /\ limit = J1QL_LIMIT_COUNT
    /\ current_cursor = cursor
    /\ include_deleted = FALSE
    /\ url = "http://"
    /\ kwargs = NoKwargs
    /\ InitCall

SpecBackoff == InitBackoff /\ [][NextDeferred]_vars

\* a client after JupiterOneClient(account=a, token=t)
InitConstructed ==
    /\ engine = "client"
    /\ query = QueryPlain
    /\ server = [tree |-> FALSE, pages |-> Chain(<<1>>, Absent), failAt |-> 0,
                 total |-> 0, malformedAt |-> 0]
    /\ cursor = Null
    /\ max_workers = 0
    /\ skip = J1QL_SKIP_COUNT
    /\ limit = J1QL_LIMIT_COUNT
    /\ current_cursor = Null
    /\ include_deleted = FALSE
    /\ url = "https://"
    /\ kwargs = NoKwargs
    /\ pc = "start"
    /\ InitLocals
    /\ account \in {"id-1", "id-2"}
    /\ token \in {"id-1", "id-3"}
    /\ headers = make_headers(account, token)

NextClient ==
    \/ \E value \in AttrValues : SetAccount(value)
    \/ \E value \in AttrValues : SetToken(value)
    \/ SendRequest

SpecClient == InitConstructed /\ [][NextClient]_vars

InitQuestions ==
    /\ engine = "list_questions"
    /\ query = <<>>
    /\ server \in QuestionsServers
    /\ \E i \in 1..Len(server.pages) : ~server.pages[i].hasNextPage
    /\ cursor = Null
    /\ max_workers = 0
    /\ skip = J1QL_SKIP_COUNT
    /\ limit = J1QL_LIMIT_COUNT
    /\ current_cursor = Null
    /\ include_deleted = FALSE
    /\ url = "https://"
    /\ kwargs = NoKwargs
    /\ InitCall

NextQuestions ==
    \/ ListQuestionsFirst
    \/ ListQuestionsLoop

SpecQuestions == InitQuestions /\ [][NextQuestions]_vars

(***************************************************************************)
(* Properties.                                                             *)
(***************************************************************************)
Finished == pc = "done"

\* what the query texts tried say: whether the text holds a LIMIT n, and its n
QueryHasLimit == query # QueryPlain
QueryLimitValue ==
    CASE query = QueryLimit0 -> 0
      [] query = QueryLimit2 -> 2
      [] query = QueryLimit3 -> 3
      [] query = QueryLimit12 -> 12
      [] query = QueryLimit5 -> 5
      [] OTHER -> 0
ReturnedList == Finished /\ ret.kind = "wrapped"
NoCursorValue(c) == c \in {Absent, Null, EmptyStr}

\* the page the call starts at, and the last page of the chain
StartPage == IF NoCursorValue(cursor) THEN 1 ELSE PageOf(cursor)
LastPage == Len(server.pages)

RECURSIVE ConcatPages(_, _)
\* the records of pages i..j of the server, in page order
ConcatPages(i, j) ==
    IF i > j THEN <<>> ELSE server.pages[i].data \o ConcatPages(i + 1, j)

\* no request sent so far was answered with an exception
NoFetchRaised ==
    \A k \in 1..Len(requests) : CursorAnswer(requests[k].cursor).kind # "error"

ListServer == engine = "cursor" /\ ~server.tree
SequentialMode == max_workers \in {0, 1}

\* C1: in sequential mode, for a query without inline LIMIT and a chain of N
\* list pages none of whose fetches raises, the call returns {"data": L} with L
\* the concatenation of the N pages in page order, after one request per page.
C1_SequentialCompleteness ==
    (ListServer /\ SequentialMode /\ ~QueryHasLimit
        /\ NoFetchRaised /\ Finished)
    => /\ ret = [kind |-> "wrapped",
                 value |-> ListData(ConcatPages(StartPage, LastPage))]
       /\ Len(requests) = LastPage - StartPage + 1

C1_Witness ==
    /\ ListServer /\ SequentialMode /\ ~QueryHasLimit
    /\ Finished /\ NoFetchRaised
    /\ LastPage = 3 /\ StartPage = 1
    /\ \A i \in 1..3 : Len(server.pages[i].data) = 2
    /\ Len(ret.value.items) = 6

RECURSIVE FollowCursors(_, _)
\* the list gathered by following the cursor chain from page i with acc
\* already gathered, stopping at the last page or once the inline limit is met
FollowCursors(i, acc) ==
    LET got == acc \o server.pages[i].data
        n == QueryLimitValue
    IN IF i = LastPage \/ (n # 0 /\ Len(got) >= n)
       THEN got
       ELSE FollowCursors(i + 1, got)

\* what the cursor sequence alone determines as the result of a call
CursorOrderReturn ==
    IF server.tree
    THEN [kind |-> "raw", value |-> TreeData]
    ELSE LET got == FollowCursors(StartPage, <<>>)
             n == QueryLimitValue
         IN [kind |-> "wrapped",
             value |-> ListData(IF n # 0 /\ n < Len(got) THEN SubSeq(got, 1, n)
                                ELSE got)]

\* C2: when no fetch raises, a finished call of the cursor engine has returned
\* the result the cursor sequence determines, whatever max_workers is and in
\* whatever order the pool threads ran: parallel and sequential mode return
\* the same list in the same order.
C2_ParallelEqualsSequential ==
    (engine = "cursor" /\ NoFetchRaised /\ Finished) => ret = CursorOrderReturn

C2_Witness ==
    /\ ListServer /\ parallel /\ Finished /\ NoFetchRaised
    /\ LastPage = 3 /\ StartPage = 1
    /\ \A i \in 1..3 : Len(server.pages[i].data) >= 1
    /\ Len(requests) = 3
    /\ ret = CursorOrderReturn

\* pages StartPage..LastPage hold P records each, the last one 1..P
FixedPageSize(P) ==
    /\ \A i \in StartPage..(LastPage - 1) : Len(server.pages[i].data) = P
    /\ Len(server.pages[LastPage].data) \in 1..P

CeilDiv(a, b) == (a + b - 1) \div b

\* C3: with LIMIT L (L >= 1) and a server holding T >= L records in pages of
\* fixed size P, the cursor engine never sends more than ceil(L/P) requests (so
\* none after the page on which the count reaches L), and returns exactly the
\* first L records.
C3_LimitStopsEarly ==
    \A P \in 1..MaxPageSize :
        LET L == QueryLimitValue
            all == ConcatPages(StartPage, LastPage)
        IN (ListServer /\ L >= 1 /\ FixedPageSize(P) /\ Len(all) >= L
                /\ NoFetchRaised)
           => /\ Len(requests) <= CeilDiv(L, P)
              /\ Len(requests) <= CeilDiv(L, P) + 1
              /\ Finished =>
                    /\ ret = [kind |-> "wrapped",
                              value |-> ListData(SubSeq(all, 1, L))]
                    /\ Len(requests) = CeilDiv(L, P)

C3_Witness ==
    /\ ListServer /\ Finished /\ NoFetchRaised
    /\ QueryLimitValue = 3
    /\ StartPage = 1 /\ LastPage = 3 /\ FixedPageSize(2)
    /\ ~NoCursorValue(response.cursor)
    /\ Len(requests) = 2
    /\ Len(ret.value.items) = 3

\* C4: when the query contains LIMIT n (n >= 0, 0 included) the list the
\* cursor engine returns has at most n records; without the pattern the list
\* is everything gathered.
C4_LimitBoundsResult ==
    (engine = "cursor" /\ ReturnedList)
    => IF QueryHasLimit
       THEN Len(ret.value.items) <= QueryLimitValue
       ELSE ret.value.items = results

\* C5: when the query contains LIMIT n, the skip/limit engine returns at most
\* n records (stated for n >= 1, the case apart from LIMIT 0).
C5_SkipLimitTruncates ==
    (engine = "skiplimit" /\ ReturnedList /\ QueryHasLimit
        /\ QueryLimitValue >= 1)
    => Len(ret.value.items) <= QueryLimitValue

\* the first request was sent and its fetch did not raise
FirstPageReceived == pc # "start" /\ response.kind = "ok"
TreeShaped(data) == {"vertices", "edges"} \subseteq data.keys

\* C6: when the first page is a vertices/edges object, the cursor engine and
\* the skip/limit engine have returned that object itself right after the
\* first request, and no second request is ever sent, whether or not the
\* page carries a cursor or the query an inline LIMIT.
C6_TreeShortCircuit ==
    (engine \in {"cursor", "skiplimit"} /\ FirstPageReceived
        /\ TreeShaped(response.data))
    => /\ Finished
       /\ ret = [kind |-> "raw", value |-> response.data]
       /\ Len(requests) = 1

C6_Witness ==
    /\ engine = "cursor" /\ Finished
    /\ TreeShaped(response.data)
    /\ ~NoCursorValue(response.cursor)
    /\ QueryLimitValue = 2
    /\ parallel
    /\ ret.kind = "raw"

\* a page without a usable cursor has been received by the calling thread or
\* by a pool thread
ReceivedNoCursor ==
    \/ response.kind = "ok" /\ NoCursorValue(response.cursor)
    \/ \E f \in 1..Len(futures) :
          /\ futures[f].state = "finished"
          /\ futures[f].result.kind = "ok"
          /\ NoCursorValue(futures[f].result.cursor)

\* C7: once the cursor engine has received a page whose cursor is missing,
\* null or empty, no step of the call sends another page request.
C7_NoRequestAfterLastPage ==
    [][(engine = "cursor" /\ ReceivedNoCursor) => requests' = requests]_vars

C7_Witness ==
    /\ engine = "cursor" /\ parallel
    /\ pc = "for"
    /\ ReceivedNoCursor
    /\ Len(requests) = 3

\* the number of records the k-th request of a skip/limit call is answered with
PageLen(k) == Len(SkipLimitAnswer(k, (k - 1) * skip, limit).data.items)

RECURSIVE ConcatAnswers(_)
\* the records of the answers to requests 1..k, in request order
ConcatAnswers(k) ==
    IF k = 0 THEN <<>>
    ELSE ConcatAnswers(k - 1)
            \o SkipLimitAnswer(k, (k - 1) * skip, limit).data.items

NoSkipLimitFetchRaised == server.failAt = 0 \/ server.failAt > Len(requests)

\* C8: the skip/limit engine sends a request after every page of 250 records
\* or more and none after the first page of fewer than 250 (empty or not); it
\* returns the concatenation of the pages in request order: a result set of
\* 850 records read with skip = limit = 250 takes exactly 4 requests.
C8_SkipLimitTermination ==
    (engine = "skiplimit" /\ ~server.tree /\ NoSkipLimitFetchRaised)
    => /\ \A k \in 1..(Len(requests) - 1) : PageLen(k) >= J1QL_SKIP_COUNT
       /\ (requests # <<>> /\ PageLen(Len(requests)) >= J1QL_SKIP_COUNT)
             => pc = "skiploop"
       /\ Finished =>
             /\ PageLen(Len(requests)) < J1QL_SKIP_COUNT
             /\ ret = [kind |-> "wrapped",
                       value |-> ListData(ConcatAnswers(Len(requests)))]
       /\ (Finished /\ server.total = 850 /\ skip = 250 /\ limit = 250)
             => Len(requests) = 4 /\ Len(ret.value.items) = 850

C8_Witness ==
    /\ engine = "skiplimit" /\ Finished /\ ret.kind = "wrapped"
    /\ server.total = 850 /\ skip = 250 /\ limit = 250
    /\ Len(requests) = 4
    /\ PageLen(4) = 100

RECURSIVE TerminalData(_)
\* the records of the terminal answers among the first n polls, in poll order
TerminalData(n) ==
    IF n = 0 THEN <<>>
    ELSE TerminalData(n - 1)
            \o (IF polls[n].status = "IN_PROGRESS" THEN <<>>
                ELSE server.pages[polls[n].page].data)

\* C9: a download URL that answers IN_PROGRESS k times and then a terminal
\* status is polled exactly k + 1 times: its terminal answer is the last GET it
\* ever receives, and only terminal answers contribute records to the list.
C9_PollUntilTerminal ==
    engine = "deferred"
    => /\ \A i \in 1..Len(polls) :
            polls[i].status # "IN_PROGRESS"
            => LET mine == {j \in 1..Len(polls) : polls[j].url = polls[i].url}
               IN /\ Cardinality(mine) = server.pages[polls[i].page].wait + 1
                  /\ \A j \in mine : j <= i
       /\ results = TerminalData(Len(polls))

C9_Witness ==
    /\ engine = "deferred" /\ Finished
    /\ \E i \in 1..Len(polls) :
          /\ polls[i].status = "COMPLETED"
          /\ server.pages[polls[i].page].wait = 2
          /\ Cardinality({j \in 1..Len(polls) : polls[j].url = polls[i].url}) = 3
    /\ Len(results) >= 1

\* C10: when the server answers 429 to every submission, the deferred engine
\* sends at most max_retries = 5 submissions in the call.
C10_AtMostFiveSubmissions ==
    (engine = "deferred" /\ server.always429) => Len(requests) <= max_retries

\* the server gives every request the answer st
AlwaysAnswers(st) == server.status = st /\ (server.count = 0 \/ server.before = st)

\* C11: a call of _execute_query through the client's https session against a
\* server that answers 503 to every request sends exactly 5 requests in total
\* and then ends with JupiterOneApiRetryError.
C11_FiveAttemptsThenRetryError ==
    (engine = "execute_query" /\ url = "https://" /\ AlwaysAnswers(503))
    => /\ Len(requests) <= 5
       /\ Finished => /\ Len(requests) = 5
                      /\ ret.kind = "raise"
                      /\ ret.value.type = "JupiterOneApiRetryError"

\* session.post returned a response to _execute_query
ResponseReturned == engine = "execute_query" /\ Finished /\ status_code # 0

\* C12: for a response whose status is not 200 _execute_query returns nothing
\* and raises: JupiterOneApiError with the unauthorized message for 401,
\* JupiterOneApiRetryError with the rate limit message for 429 and 503,
\* JupiterOneApiRetryError with the gateway timeout message for 504,
\* JupiterOneApiError with the internal server error message for 500, and
\* JupiterOneApiError carrying the status code for every other status.
C12_NonOkStatusRaises ==
    (ResponseReturned /\ status_code # 200)
    => /\ ret.kind = "raise"
       /\ CASE status_code = 401 ->
                 /\ ret.value.type = "JupiterOneApiError"
                 /\ ret.value.message =
                      "401: Unauthorized. Please supply a valid account id and API token."
            [] status_code \in {429, 503} ->
                 /\ ret.value.type = "JupiterOneApiRetryError"
                 /\ ret.value.message = "JupiterOne API rate limit exceeded."
            [] status_code = 504 ->
                 /\ ret.value.type = "JupiterOneApiRetryError"
                 /\ ret.value.message = "Gateway Timeout."
            [] status_code = 500 ->
                 /\ ret.value.type = "JupiterOneApiError"
                 /\ ret.value.message = "JupiterOne API internal server error."
            [] OTHER ->
                 /\ ret.value.type = "JupiterOneApiError"
                 /\ ret.value.status = status_code

C12_Witness ==
    /\ ResponseReturned
    /\ status_code = 504
    /\ Len(requests) = 1
    /\ ret.value.type = "JupiterOneApiRetryError"
    /\ ret.value.message = "Gateway Timeout."

\* the messages tried that hold the text 429
Mentions429(m) ==
    m \in {<<"4", "2", "9">>, <<"H", "T", "T", "P", " ", "4", "2", "9", "!">>}

\* C13: for a 200 response whose body holds an errors key _execute_query
\* returns nothing: it raises JupiterOneApiRetryError when the array has
\* exactly one entry and that entry's message contains 429, and
\* JupiterOneApiError carrying the error list in every other case, several
\* errors of which one mentions 429 included.
C13_GraphQLErrorsRaise ==
    (ResponseReturned /\ status_code = 200 /\ "errors" \in server.content.keys)
    => /\ ret.kind = "raise"
       /\ LET errors == server.content.errors
          IN IF Len(errors) = 1 /\ Mentions429(errors[1].message)
             THEN ret.value.type = "JupiterOneApiRetryError"
             ELSE /\ ret.value.type = "JupiterOneApiError"
                  /\ ret.value.errors = errors

C13_Witness ==
    /\ ResponseReturned
    /\ status_code = 200
    /\ Len(server.content.errors) = 2
    /\ Mentions429(server.content.errors[2].message)
    /\ ~Mentions429(server.content.errors[1].message)
    /\ ret.kind = "raise"
    /\ ret.value.type = "JupiterOneApiError"
    /\ ret.value.errors = server.content.errors

\* the engines that run without a thread pool
NonParallel == (engine = "cursor" /\ SequentialMode) \/ engine = "skiplimit"

\* what the fetch behind the k-th request sent gave: the response or the
\* exception
FetchOutcome(k) ==
    IF engine = "cursor" THEN CursorAnswer(requests[k].cursor)
    ELSE SkipLimitAnswer(k, 0, 0)

\* C14: in the sequential cursor engine and the skip/limit engine, when the
\* fetch of a page raises, that request is the last one and the call ends by
\* raising that same exception: no list is returned, whatever was accumulated
\* from the earlier pages.
C14_FetchErrorPropagates ==
    \A k \in 1..Len(requests) :
        (NonParallel /\ FetchOutcome(k).kind = "error")
        => /\ Finished
           /\ k = Len(requests)
           /\ ret = [kind |-> "raise", value |-> FetchOutcome(k).error]

C14_Witness ==
    /\ engine = "cursor" /\ SequentialMode
    /\ Finished
    /\ Len(requests) = 3
    /\ FetchOutcome(3).kind = "error"
    /\ Len(results) = 4
    /\ ret.kind = "raise"
    /\ ret.value.type = "JupiterOneApiError"
    /\ ret.value.message = "JupiterOne API internal server error."

\* a submission sent so far was answered with an error status that the
\* submission loop does not retry
SubmissionRefused ==
    \E k \in 1..Len(requests) : PostStatus(k) >= 400 /\ PostStatus(k) # 429

\* C15: once a submission of the deferred engine has been answered with a
\* non-retryable error status (401, 500), the call has ended by raising to the
\* caller: the submission is not sent again and the engine does not go on.
C15_SubmissionErrorRaises ==
    (engine = "deferred" /\ SubmissionRefused)
    => /\ Finished
       /\ ret.kind = "raise"

\* the caller of query_v1 passed the keyword argument key
Given(key) == key \in kwargs.keys

\* query_v1 has called an engine
Dispatched == pc # "call"

\* C16: query_v1 calls the skip/limit engine, after one DeprecationWarning,
\* exactly when the caller passed skip or limit (one alone suffices, the other
\* then being 250); in every other case it calls the cursor engine with the
\* caller's cursor and include_deleted (None and False when not passed), which
\* the first request carries, and no warning is emitted.
C16_Dispatch ==
    /\ ~Dispatched => warnings = <<>> /\ requests = <<>>
    /\ Dispatched =>
         IF Given("skip") \/ Given("limit")
         THEN /\ engine = "skiplimit"
              /\ warnings = <<"DeprecationWarning">>
              /\ skip = IF Given("skip") THEN kwargs.skip ELSE 250
              /\ limit = IF Given("limit") THEN kwargs.limit ELSE 250
         ELSE /\ engine = "cursor"
              /\ warnings = <<>>
              /\ cursor = IF Given("cursor") THEN kwargs.cursor ELSE Null
              /\ include_deleted =
                     IF Given("include_deleted") THEN kwargs.include_deleted
                     ELSE FALSE
              /\ requests # <<>> =>
                     /\ requests[1].cursor =
                            IF cursor = Null THEN Absent ELSE cursor
                     /\ requests[1].includeDeleted = include_deleted

C16_Witness ==
    /\ Dispatched /\ Finished
    /\ Given("limit") /\ ~Given("skip") /\ Given("cursor")
    /\ engine = "skiplimit"
    /\ skip = 250 /\ limit = 100
    /\ warnings = <<"DeprecationWarning">>
    /\ Len(requests) = 1
    /\ ret.kind = "wrapped"

\* C17: query_v1 hands the caller's max_workers to the cursor engine: with
\* max_workers = n > 1 the engine runs with n workers in parallel mode, and
\* without max_workers it runs sequentially.
C17_MaxWorkersForwarded ==
    (Dispatched /\ engine = "cursor")
    => /\ (Given("max_workers") /\ kwargs.max_workers > 1)
             => max_workers = kwargs.max_workers
       /\ ~Given("max_workers") => max_workers \in {0, 1}

\* the call running is the second of two calls with the same inputs
SecondCall == previous # NoReturn

\* C18: two calls of the cursor engine with the same query, starting cursor
\* and max_workers against the same page responses end alike: what the second
\* call returns or raises equals what the first did, in sequential mode and,
\* whatever the order in which the pool threads ran in either call, in
\* parallel mode.
C18_Deterministic ==
    (engine = "cursor" /\ SecondCall /\ Finished) => ret = previous

C18_Witness ==
    /\ engine = "cursor" /\ parallel
    /\ SecondCall /\ Finished
    /\ Len(requests) = 3
    /\ previous.kind = "wrapped"
    /\ Len(previous.value.items) >= 3
    /\ ret = previous

\* C19: in parallel mode the futures the calling thread tracks in
\* future_to_cursor, the fetches submitted and not yet processed, never number
\* more than max_workers.
C19_InFlightBounded ==
    (engine = "cursor" /\ parallel)
    => Cardinality(future_to_cursor) <= max_workers

C19_Witness ==
    /\ engine = "cursor" /\ parallel
    /\ pc = "wait"
    /\ Cardinality(future_to_cursor) = 1
    /\ Len(futures) = 2
    /\ futures[2].state = "running"

\* the thread pool is in use and the page processed last ended the
\* pagination: it carried no cursor, or with it the count reached the inline
\* limit (LIMIT n with n >= 1)
NoMorePagesNeeded ==
    /\ engine = "cursor"
    /\ futures # <<>>
    /\ response.kind = "ok"
    /\ \/ NoCursorValue(response.cursor)
       \/ QueryLimitValue >= 1 /\ Len(results) >= QueryLimitValue

\* C20: in parallel mode, once the engine has processed a page after which no
\* more pages are needed, no step of the call submits a fetch, sends a page
\* request or appends to the result list.
C20_NothingAfterStop ==
    [][NoMorePagesNeeded
         => /\ Len(futures') = Len(futures)
            /\ requests' = requests
            /\ results' = results]_vars

C20_Witness ==
    /\ NoMorePagesNeeded
    /\ Finished
    /\ QueryLimitValue = 3
    /\ ~NoCursorValue(response.cursor)
    /\ LastPage = 3 /\ StartPage = 1
    /\ Len(requests) = 2
    /\ Len(futures) = 1
    /\ Len(ret.value.items) = 3

\* how many of the first k submissions were answered with a download URL
Accepted(k) == Cardinality({j \in 1..k : PostStatus(j) < 400})

\* the polls that received a terminal answer
TerminalPolls == {i \in 1..Len(polls) : polls[i].status # "IN_PROGRESS"}

C22_DeferredIgnoresLimit ==
    (engine = "deferred" /\ QueryHasLimit)
    => /\ (response.kind = "ok" /\ response.cursor # Absent
                /\ Len(results) >= QueryLimitValue)
             => ~Finished
       /\ Finished =>
             /\ ret = [kind |-> "list",
                       value |-> ListData(ConcatPages(StartPage, LastPage))]
             /\ Accepted(Len(requests)) = LastPage - StartPage + 1

C22_Witness ==
    /\ engine = "deferred" /\ Finished
    /\ QueryLimitValue = 2
    /\ StartPage = 1 /\ LastPage = 2
    /\ Len(server.pages[1].data) = 2
    /\ Len(ret.value.items) = 4
    /\ Accepted(Len(requests)) = 2

\* a page request sent so far was answered with a body of unexpected shape
MalformedReceived ==
    \E k \in 1..Len(requests) : CursorAnswer(requests[k].cursor).kind = "malformed"

\* C23: a call of the cursor engine that received a page response lacking
\* the data key ends by raising, in either mode and whichever page it is: it
\* never returns a list.
C23_MalformedPageRaises ==
    (engine = "cursor" /\ MalformedReceived /\ Finished) => ret.kind = "raise"

\* C28: every page request of a call of the cursor engine holds the three
\* variables query, includeDeleted and cursor, the query being the caller's
\* text unchanged (inline LIMIT included) and includeDeleted the caller's
\* value; the first request carries the caller's cursor, left out when it is
\* None.
C28_RequestsKeepQuery ==
    engine = "cursor"
    => /\ \A k \in 1..Len(requests) :
             /\ DOMAIN requests[k] = {"query", "includeDeleted", "cursor"}
             /\ requests[k].query = query
             /\ requests[k].includeDeleted = include_deleted
       /\ requests # <<>> =>
             requests[1].cursor = IF cursor = Null THEN Absent ELSE cursor

C28_Witness ==
    /\ engine = "cursor" /\ parallel /\ Finished
    /\ QueryLimitValue = 2
    /\ include_deleted
    /\ cursor = Null
    /\ Len(requests) = 2
    /\ requests[1].cursor = Absent
    /\ requests[2].cursor = Token(2)
    /\ requests[2].query = QueryLimit2
    /\ ret.kind = "wrapped"

\* why a finished call of the cursor engine stopped: a page without a usable
\* cursor, the inline limit reached, a tree response, or an error
StopReason ==
    \/ ret.kind = "raise"
    \/ ret.kind = "raw" /\ TreeShaped(response.data)
    \/ /\ ret.kind = "wrapped"
       /\ \/ NoCursorValue(response.cursor)
          \/ QueryLimitValue >= 1 /\ Len(results) >= QueryLimitValue
          \/ \E k \in 1..Len(requests) :
                CursorAnswer(requests[k].cursor).kind # "ok"

\* C29: against a server whose chain of pages ends, every call of the cursor
\* engine eventually returns or raises, in sequential and in parallel mode,
\* and it ends only for one of the reasons of StopReason.
C29_CursorTerminates ==
    /\ <>Finished
    /\ [](Finished => StopReason)

C29_Witness ==
    /\ engine = "cursor" /\ parallel /\ Finished
    /\ LastPage = 3 /\ StartPage = 1
    /\ Len(requests) = 3
    /\ NoCursorValue(response.cursor)
    /\ ret.kind = "wrapped"
    /\ StopReason


(***************************************************************************)
(* list_questions                                                          *)
(***************************************************************************)
\* the first page that announces no next page
FirstLastPage ==
    CHOOSE k \in 1..Len(server.pages) :
        /\ ~server.pages[k].hasNextPage
        /\ \A i \in 1..(k - 1) : server.pages[i].hasNextPage

RECURSIVE ConcatQuestions(_)
ConcatQuestions(k) ==
    IF k = 0 THEN <<>>
    ELSE ConcatQuestions(k - 1) \o server.pages[k].questions

\* every page up to the first last page has its questions and its pageInfo
QuestionsWellFormed ==
    \A k \in 1..FirstLastPage : server.pages[k].keys = {"data", "pageInfo"}

\* C24: list_questions sends one POST per page, the first without variables
\* and each later one with the previous page's endCursor as variables.cursor;
\* it asks for a further page only after a page whose hasNextPage is true,
\* stops at the first page whose hasNextPage is false, and returns the
\* questions of the pages it fetched, concatenated in page order.
C24_ListQuestionsPagination ==
    engine = "list_questions" =>
        /\ \A k \in 1..Len(requests) :
              /\ requests[k].query = QUESTIONS
              /\ requests[k].cursor =
                     IF k = 1 THEN Absent ELSE server.pages[k - 1].endCursor
              /\ ("variables" \in requests[k].keys) = (k > 1)
              /\ k > 1 => server.pages[k - 1].hasNextPage
        /\ (pc = "done" /\ QuestionsWellFormed) =>
              /\ Len(requests) = FirstLastPage
              /\ ret = [kind |-> "list",
                        value |-> ListData(ConcatQuestions(FirstLastPage))]

\* a call that fetched three pages and returned their questions, from a
\* library that holds them
C24_Witness ==
    /\ engine = "list_questions"
    /\ pc = "done"
    /\ QuestionsWellFormed
    /\ Len(requests) = 3
    /\ ret.kind = "list"
    /\ Len(ret.value.items) >= 3

\* C25: when the only response has data.questions.questions and no pageInfo,
\* list_questions returns those questions after one request, without raising.
C25_NoPageInfoReturns ==
    (/\ engine = "list_questions"
     /\ pc = "done"
     /\ Len(requests) = 1
     /\ response.keys = {"data"}) =>
        ret = [kind |-> "list", value |-> ListData(response.questions)]

\* C26: when a response holds an errors array and no data, list_questions
\* raises and returns no list.
C26_ErrorsOnlyRaises ==
    (engine = "list_questions" /\ pc # "start" /\ response.keys = {"errors"}) =>
        /\ pc = "done"
        /\ ret.kind = "raise"

\* the first response held only errors, and the call raised
C26_Witness ==
    /\ engine = "list_questions"
    /\ Len(requests) = 1
    /\ response.keys = {"errors"}
    /\ ret.kind = "raise"


(***************************************************************************)
(* The request texts of the skip/limit engine                              *)
(***************************************************************************)
\* the text sent for offset `offset`: the caller's text, then SKIP and LIMIT
\* with their numbers in decimal
ExpectedText(offset) ==
    query \o <<" ", "S", "K", "I", "P", " ">> \o ToDecimal(offset)
          \o <<" ", "L", "I", "M", "I", "T", " ">> \o ToDecimal(limit)

C30_PollingUncapped ==
    engine = "deferred" =>
        /\ \A k \in 1..Len(polls) :
              polls[k].status = "IN_PROGRESS" =>
                  IF k = Len(polls)
                  THEN pc = "poll" /\ ret = NoReturn
                  ELSE polls[k + 1].url = polls[k].url
        /\ (polls # <<>> /\ pc # "poll") =>
              polls[Len(polls)].status # "IN_PROGRESS"

\* a call still polling a URL that has answered IN_PROGRESS twice
C30_Witness ==
    /\ engine = "deferred"
    /\ pc = "poll"
    /\ Len(polls) >= 2
    /\ polls[Len(polls)].status = "IN_PROGRESS"
    /\ polls[Len(polls) - 1].status = "IN_PROGRESS"
    /\ polls[Len(polls) - 1].url = polls[Len(polls)].url
    /\ ret = NoReturn


(***************************************************************************)
(* The end of a deferred session                                           *)
(***************************************************************************)
\* the cursor field of the page the k-th poll answered for
PolledCursor(k) == server.pages[polls[k].page].cursor

\* C31: a terminal page of the deferred engine whose cursor field is absent,
\* null or empty ends the session: it is the last answer the call reads, the
\* call returns, and no submission follows it.
C31_DeferredExhaustion ==
    engine = "deferred" =>
        \A k \in 1..Len(polls) :
            (polls[k].status # "IN_PROGRESS" /\ ~Truthy(PolledCursor(k))) =>
                /\ k = Len(polls)
                /\ pc = "done"
                /\ ret.kind = "list"


(***************************************************************************)
(* The waits of the deferred submission loop                               *)
(***************************************************************************)
\* the attempt number of the k-th submission when every submission before it
\* was answered 429: the for loop starts again after max_retries attempts
AttemptOf(k) == ((k - 1) % 5) + 1

\* C32: the wait after the attempt-th 429 answer of the submission loop is the
\* integer value of the Retry-After header when the answer has one, and
\* otherwise 2^attempt seconds (2, 4, 8, 16, 32 for attempts 1..5); an answer
\* with another status is followed by no wait and ends the retry loop.
C32_BackoffWaits ==
    engine = "deferred" =>
        /\ Len(slept) =
               Cardinality({k \in 1..Len(requests) : PostStatus(k) = 429})
        /\ \A k \in 1..Len(slept) :
              /\ PostStatus(k) = 429
              /\ slept[k] =
                     IF "Retry-After" \in server.headers.keys
                     THEN DecimalValue(server.headers.retry_after)
                     ELSE <<2, 4, 8, 16, 32>>[AttemptOf(k)]
        /\ (requests # <<>> /\ PostStatus(Len(requests)) # 429) =>
              /\ attempt = 1 \/ pc # "submit"
              /\ Len(slept) < Len(requests)

\* a call that waited 2, 4, 8, 16 and 32 seconds after five 429 answers
\* without the header
C32_Witness ==
    /\ engine = "deferred"
    /\ server.headers = NoHeaders
    /\ Len(slept) >= 5
    /\ SubSeq(slept, 1, 5) = <<2, 4, 8, 16, 32>>


(***************************************************************************)
(* The headers of a client                                                 *)
(***************************************************************************)
\* C38: the headers are those built from the constructor's account and token:
\* no assignment to client.account or client.token changes them, every request
\* carries them, and an assignment of None or of the empty string raises
\* JupiterOneClientError and leaves account, token and headers as they were.
C38_HeadersFixed ==
    /\ headers = make_headers(account, token)
    /\ [][/\ headers' = headers
          /\ Len(requests') > Len(requests) =>
                requests'[Len(requests')].headers = headers
          /\ \A value \in {EmptyStr, Null} :
                (SetAccount(value) \/ SetToken(value)) =>
                    /\ ret'.kind = "raise"
                    /\ ret'.value.type = "JupiterOneClientError"
                    /\ account' = account
                    /\ token' = token]_vars

\* a request sent after both attributes were given new values, carrying the
\* constructor's account and token
C38_Witness ==
    /\ engine = "client"
    /\ ret.kind = "response"
    /\ account # headers.JupiterOneAccount
    /\ bearer(token) # headers.Authorization
    /\ requests[Len(requests)].headers = headers


(***************************************************************************)
(* A failing page in parallel mode                                         *)
(***************************************************************************)
\* the page whose fetch raises (0: none), by an error status or by a body
\* without the data key
FailingPage == IF server.failAt # 0 THEN server.failAt ELSE server.malformedAt

\* the fetch of the failing page, a page after the first one of the call, was
\* sent by a pool thread
LaterFetchRaised ==
    /\ engine = "cursor" /\ parallel /\ ~server.tree
    /\ FailingPage > StartPage
    /\ \E k \in 2..Len(requests) : requests[k].cursor = Token(FailingPage)

\* C33: when the fetch of a page raises in parallel mode, the remaining pages
\* are still fetched and the returned list lacks only the failed page's
\* records (stated for a query without inline LIMIT).
C33_OtherPagesContinue ==
    (LaterFetchRaised /\ Finished /\ ~QueryHasLimit) =>
        ret = [kind |-> "wrapped",
               value |-> ListData(ConcatPages(StartPage, FailingPage - 1)
                                  \o ConcatPages(FailingPage + 1, LastPage))]

\* C34: when the fetch of a page other than the first raises in parallel mode,
\* the request of that page is the last one sent, and the call returns
\* {"data": R} with R the pages received before it, cut to the inline limit
\* when the query has one.
C34_ParallelFailureReturnsPrefix ==
    LET R == ConcatPages(StartPage, FailingPage - 1)
    IN LaterFetchRaised =>
          /\ requests[Len(requests)].cursor = Token(FailingPage)
          /\ Finished =>
                ret = [kind |-> "wrapped",
                       value |-> ListData(IF QueryHasLimit
                                          THEN Take(R, QueryLimitValue) ELSE R)]

\* the fetches queued or running
InFlight == {f \in 1..Len(futures) : futures[f].state \in {"pending", "running"}}

AppendedPages ==
    {i \in 1..LastPage :
        /\ server.pages[i].data # <<>>
        /\ \E j \in 1..Len(results) : results[j] = server.pages[i].data[1]}

\* the first request carries the caller's cursor, every later one the cursor
\* the response before it returned, and no cursor is sent twice
CursorChain ==
    /\ requests # <<>> =>
          requests[1].cursor = IF cursor = Null THEN Absent ELSE cursor
    /\ \A k \in 2..Len(requests) :
          requests[k].cursor = CursorAnswer(requests[k - 1].cursor).cursor
    /\ \A j, k \in 1..Len(requests) :
          j # k => requests[j].cursor # requests[k].cursor

\* the last request was answered with an exception or with a tree, neither of
\* which is appended
LastNotAppended ==
    LET r == CursorAnswer(requests[Len(requests)].cursor)
    IN r.kind # "ok" \/ TreeShaped(r.data)

\* C36 as stated: the requests of a call follow the cursor chain, and a
\* finished call has sent as many requests as it has appended pages.
C36_RequestsEqualAppended ==
    engine = "cursor" =>
        /\ CursorChain
        /\ Finished => Len(requests) = Cardinality(AppendedPages)

\* C36: the requests of a call follow the cursor chain, no cursor is sent
\* twice, and a finished call has sent one request per appended page, plus
\* one when its last request was answered with an exception or with a tree.
C36_CursorChain ==
    engine = "cursor" =>
        /\ CursorChain
        /\ Finished =>
              Len(requests) = Cardinality(AppendedPages)
                                  + (IF LastNotAppended THEN 1 ELSE 0)

\* a parallel call that appended three pages after three requests along the
\* chain
C36_Witness ==
    /\ engine = "cursor" /\ parallel /\ Finished
    /\ Len(requests) = 3
    /\ requests[1].cursor = Absent
    /\ requests[2].cursor = Token(2)
    /\ requests[3].cursor = Token(3)
    /\ Cardinality(AppendedPages) = 3
    /\ ret.kind = "wrapped"


(***************************************************************************)
(* The stop test of the skip/limit engine                                  *)
(***************************************************************************)
\* C37: the stop test of the skip/limit engine compares the page length with
\* 250, not with the caller's limit: with limit < 250 and pages of at most
\* limit records the call sends exactly one request and returns that first
\* page alone, however many records the result set holds.
C37_SmallLimitOnePage ==
    (engine = "skiplimit" /\ limit < 250) =>
        /\ Len(requests) <= 1
        /\ (Finished /\ ~server.tree /\ server.failAt # 1) =>
              /\ Len(requests) = 1
              /\ ret = [kind |-> "wrapped",
                        value |-> ListData(
                            [j \in 1..(IF server.total < limit
                                       THEN server.total ELSE limit) |-> j])]

\* a call with limit = 100 against a result set of 850 records that returned
\* the first 100 after one request
C37_Witness ==
    /\ engine = "skiplimit" /\ Finished
    /\ limit = 100
    /\ server.total = 850
    /\ Len(requests) = 1
    /\ ret.kind = "wrapped"
    /\ Len(ret.value.items) = 100

====
